---------------------------- MODULE Spec2Model ----------------------------
(***************************************************************************)
(* Model of Scripts/generate_choreo.py: the choreography generation        *)
(* pipeline (audio analysis with fallback, the EDGE pose tier, the         *)
(* template sequencer, the 2D normaliser, the progress stream and the      *)
(* two persisted artifacts).                                               *)
(*                                                                         *)
(* Numbers.  Times (timestamps, durations, beat intervals) are integers    *)
(* counted in ticks of 1/TicksPerSecond second.  A progress value is an    *)
(* integer number of hundredths.  A normalised coordinate is a fraction    *)
(* <<num, den>> with den > 0, so that "in [0,1]" is 0 <= num <= den.       *)
(* math.sin is tabulated at the only arguments the sequencer uses          *)
(* (t_phase in {0, 1/4, 2/4, 3/4}) in units of 1/SinScale.                 *)
(***************************************************************************)
EXTENDS Integers, Sequences, FiniteSets, TLC

VARIABLES
    pc,            \* position of the run in __main__ / generate / try_edge_generation
    events,        \* the progress stream: JSON lines printed so far
    exitStatus,    \* -1 while running, then the process exit status
    exc,           \* text of the exception travelling to the handler ("none")
    bpm,           \* generate's local bpm
    duration,      \* generate's local duration (ticks)
    beat_times,    \* generate's local beat_times (ticks)
    output,        \* what model.generate yielded in this run (try_edge_generation's output)
    edgeResult,    \* value returned by try_edge_generation (None or a frame list)
    frames,        \* generate's local frames
    written,       \* files written so far, in order: [name, content]
    templateCalls, \* number of calls of generate_template_choreo
    analysisPath   \* which branch of the analysis produced beat_times

vars == <<pc, events, exitStatus, exc, bpm, duration, beat_times, output,
          edgeResult, frames, written, templateCalls, analysisPath>>

---------------------------------------------------------------------------
(* Representation *)

TicksPerSecond == 10
SinScale == 10000
Unit == 1000000

\* Bounds of the explored inputs.
MaxBeats == 2          \* beats reported by the beat tracker
MaxEdgeFrames == 2     \* timesteps yielded by the pose model
MaxEdgeTime == 1       \* largest timestamp (ticks) the pose model yields
MaxSeqLen == 3         \* length of an arbitrary beat list given to the sequencer
MaxSeqTick == 2        \* largest beat time in such a list
MaxGridBeats == 16     \* length of a regular beat list given to the sequencer

\* Python's None and a present list.
None == [isNone |-> TRUE, list |-> <<>>]
Some(l) == [isNone |-> FALSE, list |-> l]

Min(S) == CHOOSE m \in S : \A n \in S : m <= n
Max(S) == CHOOSE m \in S : \A n \in S : m >= n

\* All sequences over S of length at most n.
SeqsUpTo(S, n) == UNION {[1..k -> S] : k \in 0..n}

\* The strictly ascending sequences among them.
Ascending(s) == \A i \in 1..(Len(s) - 1) : s[i] < s[i + 1]

---------------------------------------------------------------------------
(* Joint vocabulary *)

JOINT_NAMES ==
    {"nose", "left_eye", "right_eye", "left_ear", "right_ear",
     "left_shoulder", "right_shoulder", "left_elbow", "right_elbow",
     "left_wrist", "right_wrist", "left_hip", "right_hip",
     "left_knee", "right_knee", "left_ankle", "right_ankle"}

SMPL_TO_JOINT ==
    (15 :> "nose") @@ (16 :> "left_ear") @@ (17 :> "right_ear") @@
    (18 :> "left_shoulder") @@ (19 :> "right_shoulder") @@
    (20 :> "left_elbow") @@ (21 :> "right_elbow") @@
    (22 :> "left_wrist") @@ (23 :> "right_wrist") @@
    (1 :> "left_hip") @@ (2 :> "right_hip") @@
    (4 :> "left_knee") @@ (5 :> "right_knee") @@
    (7 :> "left_ankle") @@ (8 :> "right_ankle")

---------------------------------------------------------------------------
(* emit_progress *)

Event(stage, progress) == [stage |-> stage, progress |-> progress, error |-> "none"]
ErrorEvent(text) == [stage |-> "Error", progress |-> 0, error |-> text]

emit_progress(evs, stage, progress) == Append(evs, Event(stage, progress))

---------------------------------------------------------------------------
(* project_smpl_to_2d.  joints_3d is the sequence of rows <<x, y, z>> of   *)
(* the array; Python row k is element k + 1.                               *)

SmplIndexOf(name) == CHOOSE i \in DOMAIN SMPL_TO_JOINT : SMPL_TO_JOINT[i] = name

Visible(joints_3d) ==
    LET names == {SMPL_TO_JOINT[i] :
                     i \in {k \in DOMAIN SMPL_TO_JOINT : k < Len(joints_3d)}}
    IN [n \in names |-> <<joints_3d[SmplIndexOf(n) + 1][1],
                          joints_3d[SmplIndexOf(n) + 1][2]>>]

\* A variant that divides by the largest coordinate instead of the extent.
project_smpl_to_2d_MaxOnly(joints_3d) ==
    LET visible == Visible(joints_3d)
        xs == {visible[n][1] : n \in DOMAIN visible}
        ys == {visible[n][2] : n \in DOMAIN visible}
        range_x == IF Max(xs) <= 0 THEN 1 ELSE Max(xs)
        range_y == IF Max(ys) <= 0 THEN 1 ELSE Max(ys)
    IN IF DOMAIN visible = {} THEN visible
       ELSE [n \in DOMAIN visible |->
                <<<<visible[n][1], range_x>>,
                  <<range_y - visible[n][2], range_y>>>>]

project_smpl_to_2d(joints_3d) ==
    LET visible == Visible(joints_3d)
        xs == {visible[n][1] : n \in DOMAIN visible}
        ys == {visible[n][2] : n \in DOMAIN visible}
        min_x == Min(xs)
        max_x == Max(xs)
        min_y == Min(ys)
        max_y == Max(ys)
        range_x == IF max_x - min_x = 0 THEN 1 ELSE max_x - min_x
        range_y == IF max_y - min_y = 0 THEN 1 ELSE max_y - min_y
    IN IF DOMAIN visible = {} THEN visible
       ELSE [n \in DOMAIN visible |->
                <<<<visible[n][1] - min_x, range_x>>,
                  <<range_y - (visible[n][2] - min_y), range_y>>>>]

---------------------------------------------------------------------------
(* generate_template_choreo *)

\* |sin(t_phase * pi)| and sin(t_phase * 2 * pi) for t_phase = k / 4.
SinPiAbs(k) == CASE k = 0 -> 0 [] k = 1 -> 7071 [] k = 2 -> SinScale [] k = 3 -> 7071
SinTwoPi(k) == CASE k = 0 -> 0 [] k = 1 -> SinScale [] k = 2 -> 0 [] k = 3 -> -SinScale

\* pt: a point given in millionths.
pt(x, y) == <<<<x, Unit>>, <<y, Unit>>>>

\* a literal such as 0.38 is written H(38)
H(c) == c * SinScale

base_pose ==
    [nose           |-> pt(H(50), H(8)),
     left_shoulder  |-> pt(H(38), H(22)),
     right_shoulder |-> pt(H(62), H(22)),
     left_elbow     |-> pt(H(28), H(38)),
     right_elbow    |-> pt(H(72), H(38)),
     left_wrist     |-> pt(H(22), H(52)),
     right_wrist    |-> pt(H(78), H(52)),
     left_hip       |-> pt(H(42), H(52)),
     right_hip      |-> pt(H(58), H(52)),
     left_knee      |-> pt(H(40), H(70)),
     right_knee     |-> pt(H(60), H(70)),
     left_ankle     |-> pt(H(40), H(88)),
     right_ankle    |-> pt(H(60), H(88))]

arms_up(k) ==
    LET lift == SinPiAbs(k)
    IN [base_pose EXCEPT
          !.left_elbow  = pt(H(30), H(22) - lift * 10),
          !.right_elbow = pt(H(70), H(22) - lift * 10),
          !.left_wrist  = pt(H(25), H(10) - lift * 8),
          !.right_wrist = pt(H(75), H(10) - lift * 8)]

side_step(k, direction) ==
    LET shift == direction * 6 * SinPiAbs(k)
        p == [n \in DOMAIN base_pose |->
                 <<<<base_pose[n][1][1] + shift, Unit>>, base_pose[n][2]>>]
    IN [p EXCEPT
          !.left_elbow  = pt(H(20), H(35)),
          !.right_elbow = pt(H(80), H(35)),
          !.left_wrist  = pt(H(15), H(50)),
          !.right_wrist = pt(H(85), H(50))]

wave_arms(k) ==
    LET wave == SinTwoPi(k)
    IN [base_pose EXCEPT
          !.left_elbow  = pt(H(28) + wave * 8, H(32) + wave * 6),
          !.left_wrist  = pt(H(18) + wave * 12, H(20) + wave * 10),
          !.right_elbow = pt(H(72) - wave * 8, H(32) - wave * 6),
          !.right_wrist = pt(H(82) - wave * 12, H(20) - wave * 10)]

move_sequence == <<"arms_up", "side_step", "wave_arms", "side_step">>
move_beats == 4

\* A variant that advances the move on every beat.
move_idx_PerBeat(i) == i % Len(move_sequence)

move_idx(i) == (i \div move_beats) % Len(move_sequence)

beat_in_move(i) == i % move_beats

direction_of(i) == IF (i \div move_beats) % 2 = 0 THEN 1 ELSE -1

\* the body of the loop from move_idx to joints, for Python index i
JointsAt(i) ==
    LET m == move_sequence[move_idx(i) + 1]
        k == beat_in_move(i)
    IN CASE m = "side_step" -> side_step(k, direction_of(i))
         [] m = "arms_up"   -> arms_up(k)
         [] m = "wave_arms" -> wave_arms(k)

\* A variant of the stopping test that also stops at a beat equal to duration.
Retained_Strict(beats, dur) ==
    IF \E i \in 1..Len(beats) : beats[i] >= dur
    THEN Min({i \in 1..Len(beats) : beats[i] >= dur}) - 1
    ELSE Len(beats)

\* number of beats the loop handles before its break
Retained(beats, dur) ==
    IF \E i \in 1..Len(beats) : beats[i] > dur
    THEN Min({i \in 1..Len(beats) : beats[i] > dur}) - 1
    ELSE Len(beats)

generate_template_choreo(b, beats, dur) ==
    [i \in 1..Retained(beats, dur) |->
        [timestamp |-> beats[i], joints |-> JointsAt(i - 1)]]

---------------------------------------------------------------------------
(* What the external services may answer *)

DefaultBpm == 120
DefaultDurationSec == 180
DefaultDuration == DefaultDurationSec * TicksPerSecond

\* tempos the beat tracker reports when it reports beats or a tempo at all
BpmSet == {DefaultBpm, 200}

\* durations the loader or the metadata probe reports (ticks)
DurationSet == {12, 20}

\* beat_interval = 60.0 / bpm, in ticks
beat_interval_of(b) == (60 * TicksPerSecond) \div b

\* beat lists of the beat tracker: ascending onsets on a half-second raster
LibrosaBeats ==
    {s \in SeqsUpTo({5 * k : k \in 0..(MaxBeats - 1)}, MaxBeats) : Ascending(s)}

\* rows of one 3D pose of n joints
PoseOfLen(n) == [k \in 1..n |-> <<(((k - 1) * 7) % 5) - 2, (((k - 1) * 3) % 7) - 3, k - 1>>]

\* a pose whose joints all coincide
PointPose(n) == [k \in 1..n |-> <<2, 2, 2>>]

PoseSet == {PoseOfLen(0), PoseOfLen(24), PointPose(3)}

\* what model.generate may yield: any short list of (t, pose_3d)
EdgeOutputs == SeqsUpTo((0..MaxEdgeTime) \X PoseSet, MaxEdgeFrames)

---------------------------------------------------------------------------
(* generate: the synthesized beat grid *)

\* [i * beat_interval for i in range(int(duration / beat_interval))]
SynthBeats(dur, interval) ==
    [i \in 1..(dur \div interval) |-> (i - 1) * interval]

\* A variant of the projection loop that puts each new frame in front.
RECURSIVE ProjectFrames_Reversed(_)
ProjectFrames_Reversed(out) ==
    IF out = <<>> THEN <<>>
    ELSE LET joints_2d == project_smpl_to_2d(out[1][2])
             rest == ProjectFrames_Reversed(Tail(out))
         IN IF DOMAIN joints_2d # {}
            THEN rest \o <<[timestamp |-> out[1][1], joints |-> joints_2d]>>
            ELSE rest

\* the projection loop of try_edge_generation
RECURSIVE ProjectFrames(_)
ProjectFrames(out) ==
    IF out = <<>> THEN <<>>
    ELSE LET joints_2d == project_smpl_to_2d(out[1][2])
             rest == ProjectFrames(Tail(out))
         IN IF DOMAIN joints_2d # {}
            THEN <<[timestamp |-> out[1][1], joints |-> joints_2d]>> \o rest
            ELSE rest

AnalysisContent == [bpm |-> bpm, duration |-> duration, beat_times |-> beat_times]

ChoreoContent ==
    [songMD5 |-> "basename", bpm |-> bpm, totalDuration |-> duration, frames |-> frames]

---------------------------------------------------------------------------
(* The run *)

Init ==
    /\ pc = "main"
    /\ events = <<>>
    /\ exitStatus = -1
    /\ exc = "none"
    /\ bpm = 0
    /\ duration = 0
    /\ beat_times = <<>>
    /\ output = <<>>
    /\ edgeResult = None
    /\ frames = <<>>
    /\ written = <<>>
    /\ templateCalls = 0
    /\ analysisPath = "none"

\* __main__: the input file is there
InputPresent ==
    /\ pc = "main"
    /\ pc' = "makedirs"
    /\ UNCHANGED <<events, exitStatus, exc, bpm, duration, beat_times, output,
                   edgeResult, frames, written, templateCalls, analysisPath>>

\* __main__: the input file is missing
InputMissing ==
    /\ pc = "main"
    /\ events' = Append(events, ErrorEvent("File not found"))
    /\ exitStatus' = 1
    /\ pc' = "exited"
    /\ UNCHANGED <<exc, bpm, duration, beat_times, output, edgeResult, frames,
                   written, templateCalls, analysisPath>>

\* an exception leaves generate
Raise(text) ==
    /\ exc' = text
    /\ pc' = "handler"

MakeDirs ==
    /\ pc = "makedirs"
    /\ \/ pc' = "analyze" /\ exc' = exc
       \/ Raise("makedirs failed")
    /\ UNCHANGED <<events, exitStatus, bpm, duration, beat_times, output,
                   edgeResult, frames, written, templateCalls, analysisPath>>

\* the primary analysis returns
AnalyzePrimary ==
    /\ pc = "analyze"
    /\ events' = emit_progress(events, "Analyzing music", 10)
    /\ \E b \in BpmSet, d \in DurationSet, bt \in LibrosaBeats :
          /\ bpm' = b
          /\ duration' = d
          /\ beat_times' = IF bt = <<>> THEN SynthBeats(d, beat_interval_of(b)) ELSE bt
          /\ analysisPath' = IF bt = <<>> THEN "no_beats" ELSE "tracked"
    /\ pc' = "write_analysis"
    /\ UNCHANGED <<exitStatus, exc, output, edgeResult, frames, written, templateCalls>>

\* the primary analysis raises (also: tempo 0 with no beats, a division by zero)
AnalyzeRaises ==
    /\ pc = "analyze"
    /\ events' = emit_progress(events, "Analyzing music", 10)
    /\ pc' = "fallback"
    /\ UNCHANGED <<exitStatus, exc, bpm, duration, beat_times, output, edgeResult,
                   frames, written, templateCalls, analysisPath>>

\* the except branch: bpm = 120.0 and the grid for duration d
FallbackResult(d) ==
    /\ duration' = d
    /\ bpm' = DefaultBpm
    /\ beat_times' = SynthBeats(d, beat_interval_of(DefaultBpm))

\* the except branch; the probe answers, or fails and DefaultDuration is taken
AnalyzeFallback ==
    /\ pc = "fallback"
    /\ events' = emit_progress(events, "Analyzing music (fallback)", 15)
    /\ \/ /\ \E d \in DurationSet : FallbackResult(d)
          /\ analysisPath' = "probe"
       \/ /\ FallbackResult(DefaultDuration)
          /\ analysisPath' = "default"
    /\ pc' = "write_analysis"
    /\ UNCHANGED <<exitStatus, exc, output, edgeResult, frames, written, templateCalls>>

WriteAnalysis ==
    /\ pc = "write_analysis"
    /\ \/ /\ written' = Append(written, [name |-> "analysis.json", content |-> AnalysisContent])
          /\ pc' = "gen_moves"
          /\ exc' = exc
       \/ /\ Raise("analysis.json not writable")
          /\ written' = written
    /\ UNCHANGED <<events, exitStatus, bpm, duration, beat_times, output,
                   edgeResult, frames, templateCalls, analysisPath>>

\* try_edge_generation returns r
EdgeReturn(r) ==
    /\ edgeResult' = r
    /\ pc' = "after_edge"

\* "Generating moves", then try_edge_generation up to the EDGE lookup
EdgeProbe ==
    /\ pc = "gen_moves"
    /\ \/ /\ events' = emit_progress(events, "Generating moves", 30)
          /\ EdgeReturn(None)
       \/ /\ events' = emit_progress(emit_progress(events, "Generating moves", 30),
                                     "Loading EDGE model", 35)
          /\ pc' = "edge_load"
          /\ UNCHANGED edgeResult
    /\ UNCHANGED <<output, exitStatus, exc, bpm, duration, beat_times, frames, written,
                   templateCalls, analysisPath>>

\* from EDGE import EDGE; EDGE(device=device)
EdgeLoad ==
    /\ pc = "edge_load"
    /\ \/ /\ EdgeReturn(None)
          /\ events' = events
       \/ /\ events' = emit_progress(events, "Running EDGE inference", 50)
          /\ pc' = "edge_infer"
          /\ UNCHANGED edgeResult
    /\ UNCHANGED <<output, exitStatus, exc, bpm, duration, beat_times, frames, written,
                   templateCalls, analysisPath>>

\* model.generate(mp3_path)
EdgeInfer ==
    /\ pc = "edge_infer"
    /\ \/ /\ EdgeReturn(None)
          /\ events' = events
          /\ output' = output
       \/ /\ \E out \in EdgeOutputs : output' = out
          /\ events' = emit_progress(events, "Projecting to 2D", 75)
          /\ pc' = "edge_project"
          /\ UNCHANGED edgeResult
    /\ UNCHANGED <<exitStatus, exc, bpm, duration, beat_times, frames, written,
                   templateCalls, analysisPath>>

\* the projection loop and the return; output is remembered when frames are returned
EdgeProject ==
    /\ pc = "edge_project"
    /\ \/ /\ EdgeReturn(None)
          /\ output' = <<>>
       \/ LET fs == ProjectFrames(output)
          IN /\ EdgeReturn(IF fs # <<>> THEN Some(fs) ELSE None)
             /\ output' = IF fs # <<>> THEN output ELSE <<>>
    /\ UNCHANGED <<events, exitStatus, exc, bpm, duration, beat_times, frames,
                   written, templateCalls, analysisPath>>

\* A variant that runs the sequencer on a fresh uniform grid.
TemplateFallback_FreshGrid ==
    /\ pc = "after_edge"
    /\ edgeResult.isNone
    /\ events' = emit_progress(events, "Generating moves (template mode)", 40)
    /\ frames' = generate_template_choreo(
                    bpm, SynthBeats(duration, beat_interval_of(bpm)), duration)
    /\ templateCalls' = templateCalls + 1
    /\ pc' = "save"
    /\ UNCHANGED <<exitStatus, exc, bpm, duration, beat_times, output, edgeResult, written,
                   analysisPath>>

\* frames is None: the template tier
TemplateFallback ==
    /\ pc = "after_edge"
    /\ edgeResult.isNone
    /\ events' = emit_progress(events, "Generating moves (template mode)", 40)
    /\ frames' = generate_template_choreo(bpm, beat_times, duration)
    /\ templateCalls' = templateCalls + 1
    /\ pc' = "save"
    /\ UNCHANGED <<exitStatus, exc, bpm, duration, beat_times, output, edgeResult, written,
                   analysisPath>>

\* frames is a list: kept
KeepEdgeFrames ==
    /\ pc = "after_edge"
    /\ ~edgeResult.isNone
    /\ frames' = edgeResult.list
    /\ pc' = "save"
    /\ UNCHANGED <<events, exitStatus, exc, bpm, duration, beat_times, output,
                   edgeResult, written, templateCalls, analysisPath>>

SaveChoreo ==
    /\ pc = "save"
    /\ events' = emit_progress(events, "Saving choreography", 90)
    /\ \/ /\ written' = Append(written, [name |-> "choreo.json", content |-> ChoreoContent])
          /\ pc' = "done"
          /\ exc' = exc
       \/ /\ Raise("choreo.json not writable")
          /\ written' = written
    /\ UNCHANGED <<exitStatus, bpm, duration, beat_times, output, edgeResult,
                   frames, templateCalls, analysisPath>>

\* A variant of the handler that forgets the exit status.
HandleError_ExitZero ==
    /\ pc = "handler"
    /\ events' = Append(events, ErrorEvent(exc))
    /\ exitStatus' = 0
    /\ pc' = "exited"
    /\ UNCHANGED <<exc, bpm, duration, beat_times, output, edgeResult, frames,
                   written, templateCalls, analysisPath>>

\* emit_progress("Done", 1.0); generate returns and the process ends
EmitDone ==
    /\ pc = "done"
    /\ events' = emit_progress(events, "Done", 100)
    /\ exitStatus' = 0
    /\ pc' = "exited"
    /\ UNCHANGED <<exc, bpm, duration, beat_times, output, edgeResult, frames,
                   written, templateCalls, analysisPath>>

\* except Exception as e in __main__
HandleError ==
    /\ pc = "handler"
    /\ events' = Append(events, ErrorEvent(exc))
    /\ exitStatus' = 1
    /\ pc' = "exited"
    /\ UNCHANGED <<exc, bpm, duration, beat_times, output, edgeResult, frames,
                   written, templateCalls, analysisPath>>

Next ==
    \/ InputPresent
    \/ InputMissing
    \/ MakeDirs
    \/ AnalyzePrimary
    \/ AnalyzeRaises
    \/ AnalyzeFallback
    \/ WriteAnalysis
    \/ EdgeProbe
    \/ EdgeLoad
    \/ EdgeInfer
    \/ EdgeProject
    \/ TemplateFallback
    \/ KeepEdgeFrames
    \/ SaveChoreo
    \/ EmitDone
    \/ HandleError

Spec == Init /\ [][Next]_vars

---------------------------------------------------------------------------
(* The sequencer alone, on arbitrary arguments *)

\* n beats, one every step ticks, from 0
Grid(n, step) == [i \in 1..n |-> (i - 1) * step]

SeqBeatLists ==
    SeqsUpTo(0..MaxSeqTick, MaxSeqLen)
        \cup {Grid(n, 5) : n \in 0..MaxGridBeats}

SeqDurations == (0..MaxSeqTick) \cup {12, 5 * MaxGridBeats}

SeqInit ==
    /\ pc = "seq_call"
    /\ bpm \in BpmSet
    /\ beat_times \in SeqBeatLists
    /\ duration \in SeqDurations
    /\ events = <<>>
    /\ exitStatus = -1
    /\ exc = "none"
    /\ output = <<>>
    /\ edgeResult = None
    /\ frames = <<>>
    /\ written = <<>>
    /\ templateCalls = 0
    /\ analysisPath = "none"

\* frames = generate_template_choreo(bpm, beat_times, duration)
SeqCall ==
    /\ pc = "seq_call"
    /\ frames' = generate_template_choreo(bpm, beat_times, duration)
    /\ templateCalls' = templateCalls + 1
    /\ pc' = "seq_return"
    /\ UNCHANGED <<events, exitStatus, exc, bpm, duration, beat_times, output,
                   edgeResult, written,
                   analysisPath>>

SeqNext == SeqCall

SpecSeq == SeqInit /\ [][SeqNext]_vars

---------------------------------------------------------------------------
(* Properties *)

Last(s) == s[Len(s)]

Names(w) == [i \in DOMAIN w |-> w[i].name]

Timestamps(fs) == [i \in DOMAIN fs |-> fs[i].timestamp]

NonDecreasing(ts) == \A i \in 1..(Len(ts) - 1) : ts[i] <= ts[i + 1]

\* the persisted choreographies and analyses
Choreos == {written[i].content : i \in {j \in DOMAIN written : written[j].name = "choreo.json"}}
Analyses == {written[i].content : i \in {j \in DOMAIN written : written[j].name = "analysis.json"}}

InUnit(c) == c[2] > 0 /\ 0 <= c[1] /\ c[1] <= c[2]

PoseInUnitSquare(joints) ==
    /\ DOMAIN joints # {}
    /\ DOMAIN joints \subseteq JOINT_NAMES
    /\ \A n \in DOMAIN joints : InUnit(joints[n][1]) /\ InUnit(joints[n][2])

EdgeStages == {"Loading EDGE model", "Running EDGE inference", "Projecting to 2D"}

InsideEdge == pc \in {"edge_load", "edge_infer", "edge_project"}

\* C1: across one run the emitted progress values never decrease (the
\* terminal Error event, whose progress is 0 by definition, set aside), and
\* the last event of a finished run is Done with progress 1.0 or Error with
\* progress 0.
ProgressMonotone ==
    /\ \A i, j \in DOMAIN events :
          (i < j /\ events[j].stage # "Error")
             => events[i].progress <= events[j].progress
    /\ pc = "exited" =>
          /\ events # <<>>
          /\ \/ Last(events).stage = "Done" /\ Last(events).progress = 100
             \/ Last(events).stage = "Error" /\ Last(events).progress = 0

\* C2: when try_edge_generation returned None the persisted frames are
\* those of the sequencer for the bpm, beat_times and duration of the
\* analysis artifact; when it returned a list, that list is persisted
\* unchanged and the sequencer was never called.
FallbackFrames ==
    \A c \in Choreos :
       /\ Analyses # {}
       /\ \A a \in Analyses :
             edgeResult.isNone =>
                /\ c.frames = generate_template_choreo(a.bpm, a.beat_times, a.duration)
                /\ c.bpm = a.bpm
                /\ c.totalDuration = a.duration
                /\ templateCalls = 1
       /\ ~edgeResult.isNone =>
             /\ c.frames = edgeResult.list
             /\ templateCalls = 0

FallbackFramesWitness ==
    /\ pc = "exited"
    /\ edgeResult.isNone
    /\ analysisPath = "tracked"
    /\ \E c \in Choreos : Len(c.frames) = MaxBeats

\* the longest prefix of beats in which every timestamp is <= dur
PrefixWithin(beats, dur) ==
    Max({k \in 0..Len(beats) : \A i \in 1..k : beats[i] <= dur})

\* C3: the sequencer returns one frame per beat of the longest prefix of
\* beat_times whose timestamps are all <= duration, in order, with that
\* beat's time; [0, 0.5, 1.0, 1.5, 2.0] with duration 1.2 gives the three
\* frames at 0, 0.5, 1.0.
SequencerTruncation ==
    pc = "seq_return" =>
       /\ Len(frames) = PrefixWithin(beat_times, duration)
       /\ \A i \in 1..Len(frames) : frames[i].timestamp = beat_times[i]
       /\ (beat_times = <<0, 5, 10, 15, 20>> /\ duration = 12)
             => Timestamps(frames) = <<0, 5, 10>>

SequencerTruncationWitness ==
    /\ pc = "seq_return"
    /\ beat_times = <<0, 5, 10, 15, 20>>
    /\ duration = 12
    /\ Len(frames) = 3

\* C4 as stated: with 8 retained beats, beats 0..3 use armsUp, sideStep,
\* waveArms, sideStep in that order with direction +1 and beats 4..7 the
\* same order with direction -1 (at whatever phase).
MoveCyclingPerBeat ==
    (pc = "seq_return" /\ Len(frames) = 8) =>
       \A c \in 0..1 :
          LET d == IF c = 0 THEN 1 ELSE -1
          IN /\ frames[4 * c + 1].joints \in {arms_up(k) : k \in 0..3}
             /\ frames[4 * c + 2].joints \in {side_step(k, d) : k \in 0..3}
             /\ frames[4 * c + 3].joints \in {wave_arms(k) : k \in 0..3}
             /\ frames[4 * c + 4].joints \in {side_step(k, d) : k \in 0..3}

\* C4 amended: with 8 retained beats, beats 0..3 all use armsUp, at the
\* phases 0, 1/4, 2/4, 3/4, and beats 4..7 all use sideStep with direction
\* -1, at the same four phases.
MoveCyclingPerMove ==
    (pc = "seq_return" /\ Len(frames) = 8) =>
       \A k \in 0..3 :
          /\ frames[k + 1].joints = arms_up(k)
          /\ frames[k + 5].joints = side_step(k, -1)

MoveCyclingWitness ==
    /\ pc = "seq_return"
    /\ Len(frames) = 8
    /\ frames[6].joints = side_step(1, -1)
    /\ frames[6].joints # side_step(1, 1)
    /\ frames[2].joints # side_step(1, 1)

\* every i with 0 <= i * interval < dur, ascending
FullGrid(dur, interval) ==
    [i \in 1..Cardinality({k \in 0..dur : k * interval < dur}) |-> (i - 1) * interval]

\* C5: a synthesized beat grid holds exactly the times i*60/bpm in
\* [0, duration), ascending; when the analysis and the probe both fail the
\* result is bpm 120, duration 180 and the beats 0, 0.5, ... below 180.
SynthGridComplete ==
    /\ analysisPath \in {"no_beats", "probe", "default"}
          => beat_times = FullGrid(duration, beat_interval_of(bpm))
    /\ analysisPath = "default"
          => /\ bpm = 120
             /\ duration = 180 * TicksPerSecond
             /\ Len(beat_times) = 360
             /\ \A i \in DOMAIN beat_times : beat_times[i] = (i - 1) * 5

\* C6: a call of try_edge_generation that returned None emitted no event:
\* the EDGE stages appear in a run only if the call returned frames.
EdgeFailureSilent ==
    (edgeResult.isNone /\ ~InsideEdge) =>
       \A i \in DOMAIN events : events[i].stage \notin EdgeStages

\* C7: a finished run has exactly one terminal event, its last one: Done
\* with exit status 0 after analysis.json and then choreo.json were written
\* once each, or Error with progress 0, an error text and a non-zero exit
\* status; a run still going has emitted neither.
TerminalEvent ==
    LET terminal == {i \in DOMAIN events : events[i].stage \in {"Done", "Error"}}
    IN /\ Names(written) \in {<<>>, <<"analysis.json">>, <<"analysis.json", "choreo.json">>}
       /\ pc # "exited" => (terminal = {} /\ exitStatus = -1)
       /\ pc = "exited" =>
             /\ terminal = {Len(events)}
             /\ Last(events).stage = "Done" =>
                   /\ exitStatus = 0
                   /\ Names(written) = <<"analysis.json", "choreo.json">>
             /\ Last(events).stage = "Error" =>
                   /\ Last(events).progress = 0
                   /\ Last(events).error # "none"
                   /\ exitStatus \notin {0, -1}

TerminalEventWitness ==
    /\ pc = "exited"
    /\ Last(events).stage = "Error"
    /\ Names(written) = <<"analysis.json">>
    /\ \E i \in DOMAIN events : events[i].stage = "Saving choreography"

\* every move of the template library, at every phase and direction
TemplateLibraryInUnitSquare ==
    \A k \in 0..3 :
       /\ PoseInUnitSquare(arms_up(k))
       /\ PoseInUnitSquare(wave_arms(k))
       /\ \A d \in {1, -1} : PoseInUnitSquare(side_step(k, d))

\* C8: every persisted keyframe has a non-empty joints mapping over the
\* canonical vocabulary with all coordinates in [0,1]; so has every move of
\* the template library at every phase and direction.
PersistedPosesInUnitSquare ==
    /\ \A c \in Choreos : \A i \in DOMAIN c.frames : PoseInUnitSquare(c.frames[i].joints)
    /\ TemplateLibraryInUnitSquare

PersistedPosesWitness ==
    /\ ~edgeResult.isNone
    /\ \E c \in Choreos : \E i \in DOMAIN c.frames :
          /\ Cardinality(DOMAIN c.frames[i].joints) = 15
          /\ \E n \in DOMAIN c.frames[i].joints :
                /\ 0 < c.frames[i].joints[n][1][1]
                /\ c.frames[i].joints[n][1][1] < c.frames[i].joints[n][1][2]

\* C9 as stated: in every persisted choreography, whichever tier made it,
\* the timestamps are >= 0 and never decrease from one keyframe to the next.
FramesTimeOrdered ==
    \A c \in Choreos :
       /\ NonDecreasing(Timestamps(c.frames))
       /\ \A i \in DOMAIN c.frames : c.frames[i].timestamp >= 0

\* the timesteps of the model's output whose projected pose is not empty
RetainedOutput(out) ==
    SelectSeq(out, LAMBDA o : DOMAIN project_smpl_to_2d(o[2]) # {})

\* C9 amended: the template tier's persisted frames have timestamps >= 0
\* that never decrease; the EDGE tier's persisted frames carry the
\* timestamps of the model's non-empty timesteps in the order the model
\* emitted them, so they are >= 0 and non-decreasing when the model's are.
FramesKeepSourceOrder ==
    \A c \in Choreos :
       /\ edgeResult.isNone =>
             /\ NonDecreasing(Timestamps(c.frames))
             /\ \A i \in DOMAIN c.frames : c.frames[i].timestamp >= 0
       /\ ~edgeResult.isNone =>
             /\ Timestamps(c.frames) = [i \in DOMAIN RetainedOutput(output) |->
                                           RetainedOutput(output)[i][1]]
             /\ (NonDecreasing([i \in DOMAIN output |-> output[i][1]])
                 /\ \A i \in DOMAIN output : output[i][1] >= 0)
                   => /\ NonDecreasing(Timestamps(c.frames))
                      /\ \A i \in DOMAIN c.frames : c.frames[i].timestamp >= 0

FramesKeepSourceOrderWitness ==
    /\ ~edgeResult.isNone
    /\ \E c \in Choreos :
          /\ Len(c.frames) = 2
          /\ c.frames[1].timestamp < c.frames[2].timestamp

\* C10: successive sideStep moves use opposite directions: with 16
\* retained beats the sideStep of beats 4..7 and the sideStep of beats
\* 12..15 are evaluated with +1 and -1, one each.
SideStepAlternates ==
    (pc = "seq_return" /\ Len(frames) >= 16) =>
       \E d \in {1, -1} :
          /\ frames[6].joints = side_step(1, d)
          /\ frames[14].joints = side_step(1, -d)

===========================================================================
